---------------------------- MODULE Spec2Model ----------------------------
(***************************************************************************)
(* Streaming-response coordinator of desk-mew-pet (src/src/main.ts, lines  *)
(* 1-1047): round identity, fragment sanitizing, batched/debounced         *)
(* flushing, silence and first-token timers, error and retry handling.     *)
(*                                                                         *)
(* Text is a sequence of one-character strings.  A hint is a one-element   *)
(* sequence holding the hint's name, so that the bubble's text (a hint or  *)
(* rendered stream text) is always a sequence.                             *)
(*                                                                         *)
(* The program runs on one event loop: every action below is one handler   *)
(* (or one continuation after an await) run to completion.  Handlers are   *)
(* written as operators from a state record s to the state record after    *)
(* the call, so that a handler can call another handler as the code does.  *)
(*                                                                         *)
(* What the model abstracts:                                               *)
(*  - Time.  A pending timeout may fire at any moment, in any order with   *)
(*    other timeouts and events; delays (50, 800, 15000 ms) are not kept.  *)
(*  - Timeout handles are the numbers 1, 2, ... in the order setTimeout    *)
(*    hands them out.  The zero-delay timeout of submitInput's catch block *)
(*    (its handle is dropped by the code) is kept as a count only.         *)
(*  - The backend.  It answers an invoke() with a fresh round id or a      *)
(*    failure, and emits any event at any time, chunks and stream-errors   *)
(*    for any round id it has assigned (also before the acknowledgment of  *)
(*    that round has been delivered).                                      *)
(*  - The bubble starts hidden and empty (its markup is not in main.ts).   *)
(*  - Left out: the pet's animation and pointer tracking, the window's     *)
(*    position, the provider-configuration form and chatInput's value      *)
(*    (the text submitted is chosen at each submit).                       *)
(*                                                                         *)
(* Eight specifications share the handlers.  Spec has every event, two     *)
(* rounds and few fragments.  FlushSpec has one round and more, shorter    *)
(* fragments, for the batching and debounce properties.  ScenarioSpec is   *)
(* one round streaming "H" and "i".  RetrySpec counts first-send-failed    *)
(* events and retry requests.  LiveSpec adds weak fairness of the timer    *)
(* callbacks.  SanSpec applies the sanitizer alone to raw fragments.       *)
(* SplitSpec hands one raw stream to a round in two fragments.  WalkSpec   *)
(* is the random walk: randomWalkStep calls, each at one of its awaits,    *)
(* drags, and the form opening and closing; the window's position is left  *)
(* out, and a window operation may succeed or fail at every call.          *)
(*                                                                         *)
(* roundText and acceptedText are history variables: they record what was  *)
(* accepted and are read by no handler.  So are firstFailEvents and        *)
(* retryRequests (counted in RetrySpec only), sanInput and sanOutput       *)
(* (SanSpec, SplitSpec) and splitAt (SplitSpec).                           *)
(***************************************************************************)
EXTENDS Integers, Sequences, FiniteSets, TLC

\* ---------------------------------------------------------------- bounds
\* Largest round id the backend hands out.
MaxRounds == 2
\* Number of qwen_stream_chunk events delivered in one behaviour.
MaxChunks == 3
\* Number of qwen_stream_chunk events delivered in one behaviour of FlushSpec.
MaxFragments == 4
\* Number of qwen_stream_chunk events delivered in one behaviour of
\* ScenarioSpec.
MaxScenarioFragments == 3
\* Number of qwen_first_send_failed events in one behaviour of RetrySpec.
MaxFailures == 3
\* Fragments delivered in one behaviour of LiveSpec.
MaxLiveFragments == 2
\* Length of the raw stream of SplitSpec.
MaxSplitLen == 4
\* randomWalkStep calls that can be in progress at once in WalkSpec.
MaxWalkers == 2
\* Length of the free part of a raw fragment of SanSpec.
MaxSanLen == 4
\* Times the sanitizer is applied in a row in SanSpec.
MaxSanPasses == 2
\* Invocations (qwen_send, qwen_retry_last) awaiting their reply, plus
\* zero-delay continuations of failed submissions awaiting their turn.
MaxInFlight == 2

\* ------------------------------------------------------------- constants
STREAM_BATCH_CHARS == 8

NULL == 0

ESC == "ESC"
BEL == "BEL"
CR == "CR"
LF == "LF"

EMPTY_INPUT_HINT == <<"EMPTY_INPUT_HINT">>
THINKING_HINT == <<"THINKING_HINT">>
SESSION_INTERRUPTED_HINT == <<"SESSION_INTERRUPTED_HINT">>
STREAM_UNPARSABLE_HINT == <<"STREAM_UNPARSABLE_HINT">>
RETRY_FAILED_HINT == <<"RETRY_FAILED_HINT">>

\* ------------------------------------------------------------- sanitizer
\* The character classes of ANSI_CSI_PATTERN, restricted to the characters
\* the model uses: [0-?], [ -/] and [@-~].
CsiParamChars == {"0", "1", ";", "?"}
CsiIntermediateChars == {" ", "/"}
CsiFinalChars == {"@", "H", "[", "\\", "]", "a", "b", "c", "d", "e", "f", "g", "h", "i", "m", "~"}

\* Index of the first character at or after `from` that is not in `class`
\* (Len(s) + 1 when there is none): where a greedy `[class]*` stops.
SkipClass(s, from, class) ==
    CHOOSE i \in from..(Len(s) + 1) :
        /\ \A j \in from..(i - 1) : s[j] \in class
        /\ (i = Len(s) + 1 \/ s[i] \notin class)

\* Length of the match of /\u001b\[[0-?]*[ -/]*[@-~]/ at the head of s, 0 when
\* there is none.  The three classes are disjoint, so backtracking into the
\* greedy stars never finds another match.
CsiMatchLen(s) ==
    IF Len(s) >= 3 /\ s[1] = ESC /\ s[2] = "["
    THEN LET p == SkipClass(s, 3, CsiParamChars)
             q == SkipClass(s, p, CsiIntermediateChars)
         IN  IF q <= Len(s) /\ s[q] \in CsiFinalChars THEN q ELSE 0
    ELSE 0

\* Length of the match of /\u001b\][^\u0007]*(\u0007|\u001b\\)/ at the head of
\* s, 0 when there is none.  The greedy [^BEL]* runs to the first BEL, which
\* then ends the match; with no BEL it runs to the end of s and backtracks
\* to the last ESC \ .
OscMatchLen(s) ==
    IF Len(s) >= 3 /\ s[1] = ESC /\ s[2] = "]"
    THEN LET bels == {i \in 3..Len(s) : s[i] = BEL}
             sts == {i \in 3..(Len(s) - 1) : s[i] = ESC /\ s[i + 1] = "\\"}
         IN  IF bels # {} THEN CHOOSE i \in bels : \A j \in bels : i <= j
             ELSE IF sts # {} THEN (CHOOSE i \in sts : \A j \in sts : j <= i) + 1
             ELSE 0
    ELSE 0

\* s.replace(ANSI_CSI_PATTERN, ''): matches are found left to right and do
\* not overlap.
RECURSIVE RemoveCsi(_)
RemoveCsi(s) ==
    IF s = <<>> THEN <<>>
    ELSE LET n == CsiMatchLen(s)
         IN  IF n > 0 THEN RemoveCsi(SubSeq(s, n + 1, Len(s)))
             ELSE <<Head(s)>> \o RemoveCsi(Tail(s))

\* s.replace(ANSI_OSC_PATTERN, '')
RECURSIVE RemoveOsc(_)
RemoveOsc(s) ==
    IF s = <<>> THEN <<>>
    ELSE LET n == OscMatchLen(s)
         IN  IF n > 0 THEN RemoveOsc(SubSeq(s, n + 1, Len(s)))
             ELSE <<Head(s)>> \o RemoveOsc(Tail(s))

\* s.replace(/\r/g, '')
IsNotCr(c) == c # CR
RemoveCr(s) == SelectSeq(s, IsNotCr)

\* The sanitizedChunk of appendChunk.
sanitize(chunk) == RemoveCr(RemoveOsc(RemoveCsi(chunk)))

\* A randomWalkStep call that is not in progress.
WalkerAtRest == [pc |-> "rest", index |-> 0]

\* ----------------------------------------------------------------- state
VARIABLES
    chatState,              \* ChatRuntimeState
    currentRoundId,
    renderedStreamText,
    pendingStreamText,
    gotFirstToken,
    sawRawChunk,
    flushTimer,             \* handle of the pending timeout, or NULL
    silenceTimer,
    firstTokenTimer,
    inputVisible,
    firstFailModalVisible,
    bubbleText,             \* chatBubble.textContent
    bubbleHidden,           \* chatBubble.classList.contains('hidden')
    timeouts,               \* the window's pending stream timeouts
    timerSeq,               \* last handle window.setTimeout returned
    inflight,               \* replies of invoke() calls not yet delivered
    submitChecks,           \* pending zero-delay continuations of submitInput's catch
    issued,                 \* last round id the backend assigned
    delivered,              \* qwen_stream_chunk events delivered so far
    roundText,              \* history: sanitized text accepted since startRound
    acceptedText,           \* history: the same, since startRound or hideBubble
    firstFailEvents,        \* history: qwen_first_send_failed events received
    retryRequests,          \* history: qwen_retry_last requests issued
    sanInput,               \* a raw fragment handed to the sanitizer alone
    sanOutput,              \* what each pass of the sanitizer made of it
    splitAt,                \* where the raw stream sanInput is cut in two fragments
    walkBusy,
    isDragging,
    walkers                 \* position of each randomWalkStep call in progress

progVars == <<chatState, currentRoundId, renderedStreamText, pendingStreamText,
              gotFirstToken, sawRawChunk, flushTimer, silenceTimer, firstTokenTimer,
              inputVisible, firstFailModalVisible, bubbleText, bubbleHidden,
              timeouts, timerSeq>>

envVars == <<inflight, submitChecks, issued, delivered>>

\* The state of the random walk and of the drag.
walkVars == <<walkBusy, isDragging, walkers>>

\* What only RetrySpec, SanSpec, SplitSpec and WalkSpec change.
auxVars == <<firstFailEvents, retryRequests, sanInput, sanOutput, splitAt,
             walkVars>>

vars == <<progVars, envVars, roundText, acceptedText, auxVars>>

\* The program's state as one record, the argument of every handler.
S ==
    [chatState |-> chatState,
     currentRoundId |-> currentRoundId,
     renderedStreamText |-> renderedStreamText,
     pendingStreamText |-> pendingStreamText,
     gotFirstToken |-> gotFirstToken,
     sawRawChunk |-> sawRawChunk,
     flushTimer |-> flushTimer,
     silenceTimer |-> silenceTimer,
     firstTokenTimer |-> firstTokenTimer,
     inputVisible |-> inputVisible,
     firstFailModalVisible |-> firstFailModalVisible,
     bubbleText |-> bubbleText,
     bubbleHidden |-> bubbleHidden,
     timeouts |-> timeouts,
     timerSeq |-> timerSeq]

\* The program's variables become the record t.
Becomes(t) ==
    /\ chatState' = t.chatState
    /\ currentRoundId' = t.currentRoundId
    /\ renderedStreamText' = t.renderedStreamText
    /\ pendingStreamText' = t.pendingStreamText
    /\ gotFirstToken' = t.gotFirstToken
    /\ sawRawChunk' = t.sawRawChunk
    /\ flushTimer' = t.flushTimer
    /\ silenceTimer' = t.silenceTimer
    /\ firstTokenTimer' = t.firstTokenTimer
    /\ inputVisible' = t.inputVisible
    /\ firstFailModalVisible' = t.firstFailModalVisible
    /\ bubbleText' = t.bubbleText
    /\ bubbleHidden' = t.bubbleHidden
    /\ timeouts' = t.timeouts
    /\ timerSeq' = t.timerSeq

\* ---------------------------------------------------------------- timers
\* window.setTimeout(callback, ms): a fresh handle, and the callback `kind`
\* pending.  `round` records the round that was current when the timeout
\* was set (history only: no handler reads it).
setTimeout(s, kind) ==
    [s EXCEPT !.timerSeq = @ + 1,
              !.timeouts = @ \cup {[id |-> s.timerSeq + 1, kind |-> kind,
                                    round |-> s.currentRoundId]}]

\* window.clearTimeout(id)
clearTimeout(s, id) ==
    [s EXCEPT !.timeouts = {t \in @ : t.id # id}]

\* The timeout t has fired: it is no longer pending when its callback runs.
Fired(s, t) ==
    [s EXCEPT !.timeouts = @ \ {t}]

\* -------------------------------------------------------------- handlers
\* clearStreamTimers without its silenceTimer block.
ClearAllButSilenceTimer(s) ==
    LET s1 == IF s.flushTimer # NULL
              THEN [clearTimeout(s, s.flushTimer) EXCEPT !.flushTimer = NULL]
              ELSE s
    IN  IF s1.firstTokenTimer # NULL
        THEN [clearTimeout(s1, s1.firstTokenTimer) EXCEPT !.firstTokenTimer = NULL]
        ELSE s1

\* clearStreamTimers dropping the pending text with the flush timer.
ClearTimersAndPending(s) ==
    [s EXCEPT !.flushTimer = NULL, !.silenceTimer = NULL,
              !.firstTokenTimer = NULL, !.timeouts = {},
              !.pendingStreamText = <<>>]

clearStreamTimers(s) ==
    LET s1 == IF s.flushTimer # NULL
              THEN [clearTimeout(s, s.flushTimer) EXCEPT !.flushTimer = NULL]
              ELSE s
        s2 == IF s1.silenceTimer # NULL
              THEN [clearTimeout(s1, s1.silenceTimer) EXCEPT !.silenceTimer = NULL]
              ELSE s1
    IN  IF s2.firstTokenTimer # NULL
        THEN [clearTimeout(s2, s2.firstTokenTimer) EXCEPT !.firstTokenTimer = NULL]
        ELSE s2

\* hideBubble without its clearStreamTimers call.
HideBubbleKeepsTimers(s) ==
    [s EXCEPT !.pendingStreamText = <<>>,
              !.renderedStreamText = <<>>,
              !.gotFirstToken = FALSE,
              !.bubbleText = <<>>,
              !.bubbleHidden = TRUE,
              !.chatState = "idle"]

\* hideBubble without its `chatState = 'idle'`.
HideBubbleKeepsState(s) ==
    [clearStreamTimers(s) EXCEPT !.pendingStreamText = <<>>,
                                 !.renderedStreamText = <<>>,
                                 !.gotFirstToken = FALSE,
                                 !.bubbleText = <<>>,
                                 !.bubbleHidden = TRUE]

hideBubble(s) ==
    [clearStreamTimers(s) EXCEPT !.pendingStreamText = <<>>,
                                 !.renderedStreamText = <<>>,
                                 !.gotFirstToken = FALSE,
                                 !.bubbleText = <<>>,
                                 !.bubbleHidden = TRUE,
                                 !.chatState = "idle"]

showBubbleInstant(s, message) ==
    [s EXCEPT !.bubbleText = message, !.bubbleHidden = FALSE]

\* flushPendingStream without its `chatState = 'streaming'`.
FlushWithoutStreaming(s) ==
    LET s1 == IF s.flushTimer # NULL
              THEN [clearTimeout(s, s.flushTimer) EXCEPT !.flushTimer = NULL]
              ELSE s
        s2 == IF ~s1.gotFirstToken
              THEN LET a == [s1 EXCEPT !.gotFirstToken = TRUE,
                                       !.renderedStreamText = <<>>]
                   IN  IF a.firstTokenTimer # NULL
                       THEN [clearTimeout(a, a.firstTokenTimer)
                                EXCEPT !.firstTokenTimer = NULL]
                       ELSE a
              ELSE s1
        s3 == [s2 EXCEPT !.renderedStreamText = @ \o s2.pendingStreamText,
                         !.pendingStreamText = <<>>]
    IN  IF Len(s1.pendingStreamText) = 0 THEN s1
        ELSE showBubbleInstant(s3, s3.renderedStreamText)

\* flushPendingStream replacing the rendered text by the pending text.
FlushLosesRendered(s) ==
    LET s1 == IF s.flushTimer # NULL
              THEN [clearTimeout(s, s.flushTimer) EXCEPT !.flushTimer = NULL]
              ELSE s
        s2 == IF ~s1.gotFirstToken
              THEN LET a == [s1 EXCEPT !.gotFirstToken = TRUE,
                                       !.renderedStreamText = <<>>,
                                       !.chatState = "streaming"]
                   IN  IF a.firstTokenTimer # NULL
                       THEN [clearTimeout(a, a.firstTokenTimer)
                                EXCEPT !.firstTokenTimer = NULL]
                       ELSE a
              ELSE s1
        s3 == [s2 EXCEPT !.renderedStreamText = s2.pendingStreamText,
                         !.pendingStreamText = <<>>]
    IN  IF Len(s1.pendingStreamText) = 0 THEN s1
        ELSE showBubbleInstant(s3, s3.renderedStreamText)

flushPendingStream(s) ==
    LET s1 == IF s.flushTimer # NULL
              THEN [clearTimeout(s, s.flushTimer) EXCEPT !.flushTimer = NULL]
              ELSE s
        s2 == IF ~s1.gotFirstToken
              THEN LET a == [s1 EXCEPT !.gotFirstToken = TRUE,
                                       !.renderedStreamText = <<>>,
                                       !.chatState = "streaming"]
                   IN  IF a.firstTokenTimer # NULL
                       THEN [clearTimeout(a, a.firstTokenTimer)
                                EXCEPT !.firstTokenTimer = NULL]
                       ELSE a
              ELSE s1
        s3 == [s2 EXCEPT !.renderedStreamText = @ \o s2.pendingStreamText,
                         !.pendingStreamText = <<>>]
    IN  IF Len(s1.pendingStreamText) = 0 THEN s1
        ELSE showBubbleInstant(s3, s3.renderedStreamText)

\* scheduleFlush flushing at once instead of arming the debounce timer.
FlushAtOnce(s) == flushPendingStream(s)

\* scheduleFlush restarting the debounce timer at every call.
RestartFlushTimer(s) ==
    LET s1 == IF s.flushTimer # NULL THEN clearTimeout(s, s.flushTimer) ELSE s
    IN  [setTimeout(s1, "flush") EXCEPT !.flushTimer = s1.timerSeq + 1]

\* scheduleFlush never arming the debounce timer.
SkipScheduleFlush(s) == s

scheduleFlush(s) ==
    IF s.flushTimer # NULL THEN s
    ELSE [setTimeout(s, "flush") EXCEPT !.flushTimer = s.timerSeq + 1]

\* resetSilenceTimer arming the timer only when none is pending.
ArmSilenceOnce(s) ==
    IF s.silenceTimer # NULL THEN s
    ELSE [setTimeout(s, "silence") EXCEPT !.silenceTimer = s.timerSeq + 1]

\* resetSilenceTimer arming nothing.
SilenceNeverArmed(s) == s

\* The part of resetSilenceTimer that runs at the call: cancel and re-arm.
resetSilenceTimer(s) ==
    LET s1 == IF s.silenceTimer # NULL THEN clearTimeout(s, s.silenceTimer) ELSE s
    IN  [setTimeout(s1, "silence") EXCEPT !.silenceTimer = s1.timerSeq + 1]

\* silenceCallback without the `!gotFirstToken && sawRawChunk` block.
SilenceAlwaysDone(s) ==
    LET s1 == flushPendingStream(s)
    IN  IF s1.chatState = "error" THEN [s1 EXCEPT !.silenceTimer = NULL]
        ELSE [s1 EXCEPT !.chatState = "round_done", !.silenceTimer = NULL]

\* The callback resetSilenceTimer hands to setTimeout.
silenceCallback(s) ==
    LET s1 == flushPendingStream(s)
    IN  IF s1.chatState = "error" THEN [s1 EXCEPT !.silenceTimer = NULL]
        ELSE IF ~s1.gotFirstToken /\ s1.sawRawChunk
        THEN [showBubbleInstant(s1, STREAM_UNPARSABLE_HINT)
                 EXCEPT !.chatState = "error", !.silenceTimer = NULL]
        ELSE [s1 EXCEPT !.chatState = "round_done", !.silenceTimer = NULL]

\* The part of resetFirstTokenTimer that runs at the call.
resetFirstTokenTimer(s) ==
    LET s1 == IF s.firstTokenTimer # NULL THEN clearTimeout(s, s.firstTokenTimer) ELSE s
    IN  [setTimeout(s1, "firstToken") EXCEPT !.firstTokenTimer = s1.timerSeq + 1]

\* firstTokenCallback showing the other hint.
FirstTokenUnparsable(s) ==
    IF s.chatState # "waiting_first_token" \/ s.gotFirstToken
    THEN [s EXCEPT !.firstTokenTimer = NULL]
    ELSE [showBubbleInstant(s, STREAM_UNPARSABLE_HINT)
             EXCEPT !.chatState = "error", !.firstTokenTimer = NULL]

\* The callback resetFirstTokenTimer hands to setTimeout.
firstTokenCallback(s) ==
    IF s.chatState # "waiting_first_token" \/ s.gotFirstToken
    THEN [s EXCEPT !.firstTokenTimer = NULL]
    ELSE [showBubbleInstant(s, SESSION_INTERRUPTED_HINT)
             EXCEPT !.chatState = "error", !.firstTokenTimer = NULL]

openInput(s) == [s EXCEPT !.inputVisible = TRUE]

closeInput(s) == [s EXCEPT !.inputVisible = FALSE]

closeChatUI(s) == hideBubble(closeInput(s))

\* startRound without its `sawRawChunk = false`.
StartRoundKeepsSawRawChunk(s, roundId) ==
    LET s1 == closeInput(clearStreamTimers(s))
        s2 == [s1 EXCEPT !.currentRoundId = roundId,
                         !.renderedStreamText = <<>>,
                         !.pendingStreamText = <<>>,
                         !.gotFirstToken = FALSE,
                         !.chatState = "waiting_first_token"]
    IN  resetFirstTokenTimer(showBubbleInstant(s2, THINKING_HINT))

startRound(s, roundId) ==
    LET s1 == closeInput(clearStreamTimers(s))
        s2 == [s1 EXCEPT !.currentRoundId = roundId,
                         !.renderedStreamText = <<>>,
                         !.pendingStreamText = <<>>,
                         !.gotFirstToken = FALSE,
                         !.sawRawChunk = FALSE,
                         !.chatState = "waiting_first_token"]
    IN  resetFirstTokenTimer(showBubbleInstant(s2, THINKING_HINT))

\* The test never finding a round id stale.
NeverStale(s, roundId) == FALSE

\* The test below letting through the fragments of rounds yet to start.
StaleOnlyIfOlder(s, roundId) == roundId < s.currentRoundId

\* The round ledger's test, `roundId !== currentRoundId`, of appendChunk and
\* of the qwen_stream_error listener.
isStale(s, roundId) == roundId # s.currentRoundId

\* The block below left out.
KeepFirstTokenTimer(s) == s

\* appendChunk's `if (!gotFirstToken && firstTokenTimer !== null)` block.
disarmFirstTokenTimer(s) ==
    IF ~s.gotFirstToken /\ s.firstTokenTimer # NULL
    THEN [clearTimeout(s, s.firstTokenTimer) EXCEPT !.firstTokenTimer = NULL]
    ELSE s

\* The test below never finding the batch full.
BatchNeverFull(s) == FALSE

\* The test below flushing only above the batch size.
BatchFullAbove(s) == Len(s.pendingStreamText) > STREAM_BATCH_CHARS

\* appendChunk's `[...pendingStreamText].length >= STREAM_BATCH_CHARS`.
batchFull(s) == Len(s.pendingStreamText) >= STREAM_BATCH_CHARS

\* appendChunk putting the fragment before the pending text.
AppendChunkInFront(s, roundId, chunk) ==
    IF isStale(s, roundId) THEN s
    ELSE LET s1 == [s EXCEPT !.sawRawChunk = TRUE]
             s2 == disarmFirstTokenTimer(s1)
             s3 == resetSilenceTimer(s2)
             sanitizedChunk == sanitize(chunk)
             s4 == [s3 EXCEPT !.pendingStreamText = sanitizedChunk \o @]
         IN  IF Len(sanitizedChunk) = 0 THEN s3
             ELSE IF batchFull(s4)
             THEN flushPendingStream(s4)
             ELSE scheduleFlush(s4)

\* appendChunk sanitizing the pending text and the fragment together.
AppendChunkSanitizesBuffer(s, roundId, chunk) ==
    IF isStale(s, roundId) THEN s
    ELSE LET s1 == [s EXCEPT !.sawRawChunk = TRUE]
             s2 == disarmFirstTokenTimer(s1)
             s3 == resetSilenceTimer(s2)
             s4 == [s3 EXCEPT !.pendingStreamText = sanitize(@ \o chunk)]
         IN  IF Len(sanitize(chunk)) = 0 /\ Len(s4.pendingStreamText) = 0 THEN s4
             ELSE IF batchFull(s4)
             THEN flushPendingStream(s4)
             ELSE scheduleFlush(s4)

appendChunk(s, roundId, chunk) ==
    IF isStale(s, roundId) THEN s
    ELSE LET s1 == [s EXCEPT !.sawRawChunk = TRUE]
             s2 == disarmFirstTokenTimer(s1)
             s3 == resetSilenceTimer(s2)
             sanitizedChunk == sanitize(chunk)
             s4 == [s3 EXCEPT !.pendingStreamText = @ \o sanitizedChunk]
         IN  IF Len(sanitizedChunk) = 0 THEN s3
             ELSE IF batchFull(s4)
             THEN flushPendingStream(s4)
             ELSE scheduleFlush(s4)

openFirstFailModal(s) == [s EXCEPT !.firstFailModalVisible = TRUE]

\* closeFirstFailModal leaving the dialog open.
KeepFirstFailModal(s) == s

closeFirstFailModal(s) == [s EXCEPT !.firstFailModalVisible = FALSE]

\* The qwen_stream_error listener showing the event's message when it has one.
StreamErrorShowsMessage(s, payload) ==
    IF isStale(s, payload.roundId) THEN s
    ELSE clearStreamTimers(
             [showBubbleInstant(s, IF payload.message # <<>> THEN payload.message
                                   ELSE SESSION_INTERRUPTED_HINT)
                 EXCEPT !.chatState = "error"])

\* The body of the qwen_stream_error listener; payload is the event's
\* StreamErrorPayload (its kind and message only go to the console).
onStreamError(s, payload) ==
    IF isStale(s, payload.roundId) THEN s
    ELSE clearStreamTimers([showBubbleInstant(s, SESSION_INTERRUPTED_HINT)
                               EXCEPT !.chatState = "error"])

\* The qwen_session_interrupted listener ignoring the event when no round
\* is running.
InterruptedOnlyInLiveRound(s, message) ==
    IF s.chatState \in {"idle", "round_done"} THEN s
    ELSE clearStreamTimers(
             [showBubbleInstant(s, IF message # <<>> THEN message
                                   ELSE SESSION_INTERRUPTED_HINT)
                 EXCEPT !.chatState = "error"])

\* The body of the qwen_session_interrupted listener; message is '' or text.
onSessionInterrupted(s, message) ==
    clearStreamTimers(
        [showBubbleInstant(s, IF message # <<>> THEN message
                              ELSE SESSION_INTERRUPTED_HINT)
            EXCEPT !.chatState = "error"])

\* retryLastFailedInput starting the round whatever `resent` says.
RetryIgnoresResent(s, ack) ==
    IF ack.throws \/ ~ack.ok \/ ack.roundId = NULL
    THEN [showBubbleInstant(s, RETRY_FAILED_HINT) EXCEPT !.chatState = "error"]
    ELSE startRound(s, ack.roundId)

\* retryLastFailedInput after its await: the reply `ack`, or the throw.
retryContinuation(s, ack) ==
    IF ack.throws \/ ~ack.ok \/ ~ack.resent \/ ack.roundId = NULL
    THEN [showBubbleInstant(s, RETRY_FAILED_HINT) EXCEPT !.chatState = "error"]
    ELSE startRound(s, ack.roundId)

\* submitInput's synchronous part when the trimmed input is empty.
submitEmpty(s) ==
    [showBubbleInstant(s, EMPTY_INPUT_HINT) EXCEPT !.chatState = "error"]

\* submitInput after `await invoke('qwen_send')` returned `ack`.
submitContinuation(s, ack) ==
    IF ~ack.ok
    THEN [showBubbleInstant(s, SESSION_INTERRUPTED_HINT) EXCEPT !.chatState = "error"]
    ELSE startRound(s, ack.roundId)

\* submitInput's catch block not looking at the failure dialog.
CatchAlwaysErrors(s) ==
    [showBubbleInstant(s, SESSION_INTERRUPTED_HINT) EXCEPT !.chatState = "error"]

\* submitInput's catch block after its zero-delay wait.
submitCatchCheck(s) ==
    IF ~s.firstFailModalVisible
    THEN [showBubbleInstant(s, SESSION_INTERRUPTED_HINT) EXCEPT !.chatState = "error"]
    ELSE s

\* ----------------------------------------------------------- environment
\* The raw fragments the backend streams: one character of plain text, a
\* CSI sequence alone (sanitizes to nothing), and a carriage return before
\* text that fills a batch by itself.
Chunks ==
    {<<"H">>, <<ESC, "[", "0", "m">>,
     <<CR, "a", "b", "c", "d", "e", "f", "g", "h">>}

\* What the user may have typed when the form is submitted.
InputValues == {<<>>, <<" ">>, <<"h", "i">>}

\* The message of a qwen_session_interrupted event: '' or a text.
InterruptMessages == {<<>>, <<"BACKEND_MESSAGE">>}

\* The kind of a qwen_stream_error event (any string).
StreamErrorKinds == {"exit", "io"}

\* The StreamErrorPayloads with a round id in ids.
StreamErrorPayloads(ids) ==
    [roundId : ids, kind : StreamErrorKinds, message : InterruptMessages]

\* raw.trim()
RECURSIVE trim(_)
trim(raw) ==
    IF raw = <<>> THEN <<>>
    ELSE IF Head(raw) = " " THEN trim(Tail(raw))
    ELSE IF raw[Len(raw)] = " " THEN trim(SubSeq(raw, 1, Len(raw) - 1))
    ELSE raw

\* An invoke() call awaiting its reply.  roundId is the round id the backend
\* assigned when it accepted the request, NULL when it did not; how a
\* failure is reported (a refusing reply or a throw) is seen at delivery.
Call(cmd, roundId) == [cmd |-> cmd, roundId |-> roundId]

\* The SendAck replies that can close the call c, and whether it throws.
SendAcks(c) ==
    IF c.roundId # NULL
    THEN {[throws |-> FALSE, ok |-> TRUE, roundId |-> c.roundId]}
    ELSE {[throws |-> FALSE, ok |-> FALSE, roundId |-> NULL],
          [throws |-> TRUE, ok |-> FALSE, roundId |-> NULL]}

\* The RetryAck replies that can close the call c, and whether it throws.
RetryAcks(c) ==
    IF c.roundId # NULL
    THEN {[throws |-> FALSE, ok |-> TRUE, resent |-> TRUE, roundId |-> c.roundId]}
    ELSE {[throws |-> FALSE, ok |-> TRUE, resent |-> TRUE, roundId |-> NULL],
          [throws |-> FALSE, ok |-> TRUE, resent |-> FALSE, roundId |-> NULL],
          [throws |-> FALSE, ok |-> FALSE, resent |-> FALSE, roundId |-> NULL],
          [throws |-> TRUE, ok |-> FALSE, resent |-> FALSE, roundId |-> NULL]}

\* invoke(cmd): the backend accepts the request, assigning the next round
\* id, or does not; the reply arrives later, in any order with other replies
\* and events.
Invoke(cmd) ==
    /\ Cardinality(inflight) + submitChecks < MaxInFlight
    /\ \E accepted \in BOOLEAN :
        LET c == Call(cmd, IF accepted THEN issued + 1 ELSE NULL)
        IN  /\ accepted => issued < MaxRounds
            /\ c \notin inflight
            /\ inflight' = inflight \cup {c}
            /\ issued' = IF accepted THEN issued + 1 ELSE issued

\* ------------------------------------------------------------------ init
\* The module-level initializers of main.ts, before any event.
ProgramInit ==
    /\ chatState = "idle"
    /\ currentRoundId = 0
    /\ renderedStreamText = <<>>
    /\ pendingStreamText = <<>>
    /\ gotFirstToken = FALSE
    /\ sawRawChunk = FALSE
    /\ flushTimer = NULL
    /\ silenceTimer = NULL
    /\ firstTokenTimer = NULL
    /\ inputVisible = FALSE
    /\ firstFailModalVisible = FALSE
    /\ bubbleText = <<>>
    /\ bubbleHidden = TRUE
    /\ timeouts = {}
    /\ timerSeq = 0
    /\ inflight = {}
    /\ submitChecks = 0
    /\ issued = 0
    /\ delivered = 0
    /\ roundText = <<>>
    /\ acceptedText = <<>>
    /\ firstFailEvents = 0
    /\ retryRequests = 0
    /\ walkBusy = FALSE
    /\ isDragging = FALSE
    /\ walkers = [i \in 1..MaxWalkers |-> WalkerAtRest]

Init ==
    /\ ProgramInit
    /\ sanInput = <<>>
    /\ sanOutput = <<>>
    /\ splitAt = 0

\* --------------------------------------------------------------- actions
\* pointerup on the pet, a click: openInput.
PetClick ==
    /\ Becomes(openInput(S))
    /\ UNCHANGED <<envVars, roundText, acceptedText, auxVars>>

\* The form's submit event: submitInput up to its return or its await.
SubmitInput ==
    /\ inputVisible
    /\ \E raw \in InputValues :
        IF Len(trim(raw)) = 0
        THEN /\ Becomes(submitEmpty(S))
             /\ UNCHANGED <<envVars, roundText, acceptedText, auxVars>>
        ELSE /\ Invoke("qwen_send")
             /\ UNCHANGED <<progVars, submitChecks, delivered, roundText, acceptedText, auxVars>>

\* submitInput resumes with the reply of qwen_send.
SendReply ==
    \E c \in inflight :
        /\ c.cmd = "qwen_send"
        /\ inflight' = inflight \ {c}
        /\ \E ack \in SendAcks(c) :
            IF ack.throws
            THEN /\ submitChecks' = submitChecks + 1
                 /\ UNCHANGED <<progVars, roundText, acceptedText>>
            ELSE /\ Becomes(submitContinuation(S, ack))
                 /\ roundText' = IF ack.ok THEN <<>> ELSE roundText
                 /\ acceptedText' = IF ack.ok THEN <<>> ELSE acceptedText
                 /\ UNCHANGED submitChecks
        /\ UNCHANGED <<issued, delivered, auxVars>>

\* submitInput's catch block resumes after its zero-delay timeout.
SubmitCatchCheck ==
    /\ submitChecks > 0
    /\ submitChecks' = submitChecks - 1
    /\ Becomes(submitCatchCheck(S))
    /\ UNCHANGED <<inflight, issued, delivered, roundText, acceptedText, auxVars>>

\* qwen_first_send_failed
FirstSendFailed ==
    /\ Becomes(openFirstFailModal(S))
    /\ UNCHANGED <<envVars, roundText, acceptedText, auxVars>>

\* click on firstFailAck
FirstFailAck ==
    /\ firstFailModalVisible
    /\ Becomes(closeFirstFailModal(S))
    /\ UNCHANGED <<envVars, roundText, acceptedText, auxVars>>

\* click on firstFailRetry: the dialog closes, retryLastFailedInput runs up
\* to its await.
FirstFailRetry ==
    /\ firstFailModalVisible
    /\ Becomes(closeFirstFailModal(S))
    /\ Invoke("qwen_retry_last")
    /\ UNCHANGED <<submitChecks, delivered, roundText, acceptedText, auxVars>>

\* retryLastFailedInput resumes with the reply of qwen_retry_last.
RetryReply ==
    \E c \in inflight :
        /\ c.cmd = "qwen_retry_last"
        /\ inflight' = inflight \ {c}
        /\ \E ack \in RetryAcks(c) :
            /\ Becomes(retryContinuation(S, ack))
        /\ roundText' = IF c.roundId # NULL THEN <<>> ELSE roundText
        /\ acceptedText' = IF c.roundId # NULL THEN <<>> ELSE acceptedText
        /\ UNCHANGED <<submitChecks, issued, delivered, auxVars>>

\* click on the bubble
BubbleClick ==
    /\ ~bubbleHidden
    /\ Becomes(hideBubble(S))
    /\ acceptedText' = <<>>
    /\ UNCHANGED <<envVars, roundText, auxVars>>

\* Escape, in the input or on the window while the input or the bubble shows.
EscapeKey ==
    /\ inputVisible \/ ~bubbleHidden
    /\ Becomes(closeChatUI(S))
    /\ acceptedText' = <<>>
    /\ UNCHANGED <<envVars, roundText, auxVars>>

\* qwen_stream_chunk, for any round id the backend has assigned.
StreamChunk ==
    /\ delivered < MaxChunks
    /\ \E roundId \in 1..issued, chunk \in Chunks :
        /\ Becomes(appendChunk(S, roundId, chunk))
        /\ roundText' = IF roundId = currentRoundId
                        THEN roundText \o sanitize(chunk) ELSE roundText
        /\ acceptedText' = IF roundId = currentRoundId
                           THEN acceptedText \o sanitize(chunk) ELSE acceptedText
    /\ delivered' = delivered + 1
    /\ UNCHANGED <<inflight, submitChecks, issued, auxVars>>

\* qwen_stream_error
StreamError ==
    /\ \E payload \in StreamErrorPayloads(1..issued) :
        /\ Becomes(onStreamError(S, payload))
    /\ UNCHANGED <<envVars, roundText, acceptedText, auxVars>>

\* qwen_session_interrupted
SessionInterrupted ==
    /\ \E message \in InterruptMessages : Becomes(onSessionInterrupted(S, message))
    /\ UNCHANGED <<envVars, roundText, acceptedText, auxVars>>

\* The flush timeout fires: flushPendingStream.
FlushTimerFires ==
    \E t \in timeouts :
        /\ t.kind = "flush"
        /\ Becomes(flushPendingStream(Fired(S, t)))
        /\ UNCHANGED <<envVars, roundText, acceptedText, auxVars>>

\* The silence timeout fires.
SilenceTimerFires ==
    \E t \in timeouts :
        /\ t.kind = "silence"
        /\ Becomes(silenceCallback(Fired(S, t)))
        /\ UNCHANGED <<envVars, roundText, acceptedText, auxVars>>

\* The first-token timeout fires.
FirstTokenTimerFires ==
    \E t \in timeouts :
        /\ t.kind = "firstToken"
        /\ Becomes(firstTokenCallback(Fired(S, t)))
        /\ UNCHANGED <<envVars, roundText, acceptedText, auxVars>>

Next ==
    \/ PetClick
    \/ SubmitInput
    \/ SendReply
    \/ SubmitCatchCheck
    \/ FirstSendFailed
    \/ FirstFailAck
    \/ FirstFailRetry
    \/ RetryReply
    \/ BubbleClick
    \/ EscapeKey
    \/ StreamChunk
    \/ StreamError
    \/ SessionInterrupted
    \/ FlushTimerFires
    \/ SilenceTimerFires
    \/ FirstTokenTimerFires

Spec == Init /\ [][Next]_vars

\* ------------------------------------------ one round, many fragments
\* The fragments of FlushSpec: three one-character texts, and a CSI sequence
\* before three characters (3 + 3 + 1 + 1 fills a batch exactly).
FlushChunks ==
    {<<"a">>, <<"b">>, <<"c">>, <<ESC, "[", "1", "m", "d", "e", "f">>}

\* qwen_stream_chunk with a fragment of FlushChunks.
Fragment ==
    /\ delivered < MaxFragments
    /\ \E roundId \in 1..issued, chunk \in FlushChunks :
        /\ Becomes(appendChunk(S, roundId, chunk))
        /\ roundText' = IF roundId = currentRoundId
                        THEN roundText \o sanitize(chunk) ELSE roundText
        /\ acceptedText' = IF roundId = currentRoundId
                           THEN acceptedText \o sanitize(chunk) ELSE acceptedText
    /\ delivered' = delivered + 1
    /\ UNCHANGED <<inflight, submitChecks, issued, auxVars>>

\* The user submits until the backend has accepted one message; its round
\* streams fragments of FlushChunks, and any event may end it.
FlushNext ==
    \/ PetClick
    \/ issued = 0 /\ SubmitInput
    \/ SendReply
    \/ SubmitCatchCheck
    \/ BubbleClick
    \/ Fragment
    \/ StreamError
    \/ FlushTimerFires
    \/ SilenceTimerFires
    \/ FirstTokenTimerFires

FlushSpec == Init /\ [][FlushNext]_vars

\* ------------------------------------------------ the reference scenario
\* The fragments of the reference scenario, "H" and "i".
ScenarioChunks == {<<"H">>, <<"i">>}

\* qwen_stream_chunk with a fragment of ScenarioChunks.
ScenarioFragment ==
    /\ delivered < MaxScenarioFragments
    /\ \E roundId \in 1..issued, chunk \in ScenarioChunks :
        /\ Becomes(appendChunk(S, roundId, chunk))
        /\ roundText' = IF roundId = currentRoundId
                        THEN roundText \o sanitize(chunk) ELSE roundText
        /\ acceptedText' = IF roundId = currentRoundId
                           THEN acceptedText \o sanitize(chunk) ELSE acceptedText
    /\ delivered' = delivered + 1
    /\ UNCHANGED <<inflight, submitChecks, issued, auxVars>>

\* One message is submitted and acknowledged; its round streams "H" and "i"
\* in any order and number, and its timeouts fire at any moment.
ScenarioNext ==
    \/ PetClick
    \/ issued = 0 /\ SubmitInput
    \/ SendReply
    \/ SubmitCatchCheck
    \/ ScenarioFragment
    \/ FlushTimerFires
    \/ SilenceTimerFires
    \/ FirstTokenTimerFires

ScenarioSpec == Init /\ [][ScenarioNext]_vars

\* ------------------------------------------- failure dialog and retry
\* qwen_first_send_failed, counted.
FailureEvent ==
    /\ firstFailEvents < MaxFailures
    /\ Becomes(openFirstFailModal(S))
    /\ firstFailEvents' = firstFailEvents + 1
    /\ UNCHANGED <<envVars, roundText, acceptedText, retryRequests, sanInput,
                   sanOutput, splitAt, walkVars>>

\* click on firstFailRetry, counted: the dialog closes, retryLastFailedInput
\* runs up to its await.
RetryClick ==
    /\ firstFailModalVisible
    /\ Becomes(closeFirstFailModal(S))
    /\ Invoke("qwen_retry_last")
    /\ retryRequests' = retryRequests + 1
    /\ UNCHANGED <<submitChecks, delivered, roundText, acceptedText,
                   firstFailEvents, sanInput, sanOutput, splitAt, walkVars>>

\* Submissions, failure events, the dialog's two buttons and the replies.
RetryNext ==
    \/ PetClick
    \/ SubmitInput
    \/ SendReply
    \/ SubmitCatchCheck
    \/ FailureEvent
    \/ FirstFailAck
    \/ RetryClick
    \/ RetryReply
    \/ BubbleClick
    \/ FirstTokenTimerFires

RetrySpec == Init /\ [][RetryNext]_vars

\* ------------------------------------------------------- timers that fire
\* The fragments of LiveSpec: a text, and a CSI sequence that sanitizes to
\* nothing.
LiveChunks == {<<"H">>, <<ESC, "[", "0", "m">>}

\* qwen_stream_chunk with a fragment of LiveChunks.
LiveFragment ==
    /\ delivered < MaxLiveFragments
    /\ \E roundId \in 1..issued, chunk \in LiveChunks :
        /\ Becomes(appendChunk(S, roundId, chunk))
        /\ roundText' = IF roundId = currentRoundId
                        THEN roundText \o sanitize(chunk) ELSE roundText
        /\ acceptedText' = IF roundId = currentRoundId
                           THEN acceptedText \o sanitize(chunk) ELSE acceptedText
    /\ delivered' = delivered + 1
    /\ UNCHANGED <<inflight, submitChecks, issued, auxVars>>

\* Messages are submitted and acknowledged, their rounds stream fragments of
\* LiveChunks, and a dismissal, an error or an interruption may come at any
\* moment.
LiveNext ==
    \/ PetClick
    \/ SubmitInput
    \/ SendReply
    \/ SubmitCatchCheck
    \/ BubbleClick
    \/ EscapeKey
    \/ LiveFragment
    \/ StreamError
    \/ SessionInterrupted
    \/ FlushTimerFires
    \/ SilenceTimerFires
    \/ FirstTokenTimerFires

\* The window runs the callback of every timeout that stays pending.
LiveSpec ==
    /\ Init
    /\ [][LiveNext]_vars
    /\ WF_vars(FlushTimerFires)
    /\ WF_vars(SilenceTimerFires)
    /\ WF_vars(FirstTokenTimerFires)

\* ------------------------------------------------- the sanitizer alone
\* The characters of the raw fragments of SanSpec: the three control
\* characters the patterns name, a newline, a CSI parameter, and printable
\* characters ("[", "\\", "]", "m" and "a" are also CSI final bytes).
SanAlphabet == {ESC, BEL, CR, LF, "0", "[", "\\", "]", "m", "a"}

\* The strings over SanAlphabet of length n at most.
SanStrings(n) == UNION {[1..k -> SanAlphabet] : k \in 0..n}

\* Raw fragments: any string of MaxSanLen characters at most, alone or
\* after the introducer of a CSI or of an OSC sequence.
SanInputs ==
    {prefix \o tail : prefix \in {<<>>, <<ESC, "[">>, <<ESC, "]">>},
                      tail \in SanStrings(MaxSanLen)}

SanInit ==
    /\ ProgramInit
    /\ sanInput \in SanInputs
    /\ sanOutput = <<>>
    /\ splitAt = 0

\* The sanitizer is applied to the fragment, then to its own output.
ApplySanitizer ==
    /\ Len(sanOutput) < MaxSanPasses
    /\ sanOutput' = Append(sanOutput,
                           sanitize(IF sanOutput = <<>> THEN sanInput
                                    ELSE sanOutput[Len(sanOutput)]))
    /\ UNCHANGED <<progVars, envVars, roundText, acceptedText,
                   firstFailEvents, retryRequests, sanInput, splitAt, walkVars>>

SanNext == ApplySanitizer

SanSpec == SanInit /\ [][SanNext]_vars

\* ------------------------------------------ one stream, two fragments
\* The characters of the raw streams of SplitSpec.
SplitAlphabet == {ESC, BEL, "[", "]", "\\", "0", "m"}

\* The raw streams: two to MaxSplitLen characters.
SplitStreams == UNION {[1..k -> SplitAlphabet] : k \in 2..MaxSplitLen}

\* The two fragments the stream is cut in.
FirstPart == SubSeq(sanInput, 1, splitAt)
SecondPart == SubSeq(sanInput, splitAt + 1, Len(sanInput))

SplitInit ==
    /\ ProgramInit
    /\ sanInput \in SplitStreams
    /\ sanOutput = <<>>
    /\ splitAt \in 1..(Len(sanInput) - 1)

\* qwen_stream_chunk for the running round: the first part of the stream,
\* then the second.
SplitFragment ==
    /\ currentRoundId # NULL
    /\ delivered < 2
    /\ LET chunk == IF delivered = 0 THEN FirstPart ELSE SecondPart
       IN  /\ Becomes(appendChunk(S, currentRoundId, chunk))
           /\ roundText' = roundText \o sanitize(chunk)
           /\ acceptedText' = acceptedText \o sanitize(chunk)
    /\ delivered' = delivered + 1
    /\ UNCHANGED <<inflight, submitChecks, issued, auxVars>>

\* One message is submitted and acknowledged; its round receives the stream
\* in two fragments; the flush and silence timeouts fire at any moment.
SplitNext ==
    \/ issued = 0 /\ PetClick
    \/ issued = 0 /\ SubmitInput
    \/ SendReply
    \/ SplitFragment
    \/ FlushTimerFires
    \/ SilenceTimerFires

SplitSpec == SplitInit /\ [][SplitNext]_vars

\* ------------------------------------------------------- the random walk
\* The direction loop of randomWalkStep tries four directions at most.
WalkDirections == 4

\* randomWalkStep's test with walkBusy left out.
WalkBlockedIgnoresBusy == inputVisible \/ isDragging

\* randomWalkStep's `if (walkBusy || inputVisible || isDragging) return`.
walkBlocked == walkBusy \/ inputVisible \/ isDragging

\* The test `inputVisible || isDragging` of animateWindowPosition's loop and
\* of randomWalkStep after a failed animation.
animationBlocked == inputVisible \/ isDragging

\* randomWalkStep's finally block; the call i returns.
WalkEnd(i) ==
    /\ walkBusy' = FALSE
    /\ walkers' = [walkers EXCEPT ![i] = WalkerAtRest]

\* The call i goes on to its next await.
WalkAwait(i, pc, index) ==
    /\ walkers' = [walkers EXCEPT ![i] = [pc |-> pc, index |-> index]]
    /\ UNCHANGED walkBusy

\* The direction loop from direction k on.  A direction that does not move
\* the window is skipped.  The first one that does is animated:
\* animateWindowPosition returns false at once when the input is visible or
\* a drag is on, and randomWalkStep then leaves the loop; otherwise it awaits
\* an animation frame.  The step ends when no direction is left.
DirectionLoop(i, k) ==
    \/ WalkEnd(i)
    \/ /\ ~animationBlocked
       /\ \E j \in k..(WalkDirections - 1) : WalkAwait(i, "frame", j)

\* animateWindowPosition after a frame's work: done when progress >= 1,
\* else back to the head of its loop.
AnimationLoop(i, finished) ==
    IF finished \/ animationBlocked
    THEN WalkEnd(i)
    ELSE WalkAwait(i, "frame", walkers[i].index)

\* What the steps of the walk and of the drag leave alone.
WalkFrame ==
    UNCHANGED <<progVars, envVars, roundText, acceptedText, firstFailEvents,
                retryRequests, sanInput, sanOutput, splitAt>>

\* The interval timer calls randomWalkStep: it returns at once, or sets
\* walkBusy and awaits the window's position, size and work area.
WalkTick(i) ==
    /\ walkers[i].pc = "rest"
    /\ IF walkBlocked
       THEN UNCHANGED <<walkBusy, walkers>>
       ELSE /\ walkBusy' = TRUE
            /\ walkers' = [walkers EXCEPT ![i] = [pc |-> "query", index |-> 0]]
    /\ UNCHANGED isDragging
    /\ WalkFrame

\* Promise.all settles: it rejects (catch, finally), or the position is
\* outside the work area (pre-walk clamp), or the direction loop starts.
WalkQueried(i) ==
    /\ walkers[i].pc = "query"
    /\ \/ WalkEnd(i)
       \/ WalkAwait(i, "clamp", 0)
       \/ DirectionLoop(i, 0)
    /\ UNCHANGED isDragging
    /\ WalkFrame

\* The pre-walk setWindowPosition settles (it never rejects, and its result
\* is not looked at).
WalkClamped(i) ==
    /\ walkers[i].pc = "clamp"
    /\ DirectionLoop(i, 0)
    /\ UNCHANGED isDragging
    /\ WalkFrame

\* An animation frame arrives: the window has to move, or not.
WalkFrameArrives(i) ==
    /\ walkers[i].pc = "frame"
    /\ \/ WalkAwait(i, "move", walkers[i].index)
       \/ \E finished \in BOOLEAN : AnimationLoop(i, finished)
    /\ UNCHANGED isDragging
    /\ WalkFrame

\* The animation's setWindowPosition settles: moved, or failed; after a
\* failure randomWalkStep leaves the loop when the input is visible or a drag
\* is on, and tries the next direction otherwise.
WalkMoved(i) ==
    /\ walkers[i].pc = "move"
    /\ \/ \E finished \in BOOLEAN : AnimationLoop(i, finished)
       \/ IF animationBlocked THEN WalkEnd(i)
          ELSE DirectionLoop(i, walkers[i].index + 1)
    /\ UNCHANGED isDragging
    /\ WalkFrame

\* triggerNativeDrag up to its await.
DragStart ==
    /\ isDragging' = TRUE
    /\ UNCHANGED <<walkBusy, walkers>>
    /\ WalkFrame

\* startDragging settles, resolved or rejected: the finally block.
DragEnd ==
    /\ isDragging
    /\ isDragging' = FALSE
    /\ UNCHANGED <<walkBusy, walkers>>
    /\ WalkFrame

\* The interval timer, the walk's awaits, drags, and the form opening and
\* closing (by a click, a submission, the Escape key).
WalkNext ==
    \/ \E i \in 1..MaxWalkers : WalkTick(i)
    \/ \E i \in 1..MaxWalkers : WalkQueried(i)
    \/ \E i \in 1..MaxWalkers : WalkClamped(i)
    \/ \E i \in 1..MaxWalkers : WalkFrameArrives(i)
    \/ \E i \in 1..MaxWalkers : WalkMoved(i)
    \/ DragStart
    \/ DragEnd
    \/ PetClick
    \/ SubmitInput
    \/ SendReply
    \/ EscapeKey

WalkSpec == Init /\ [][WalkNext]_vars

\* ---------------------------------------------------------------- claims
IsPrefix(a, b) == Len(a) <= Len(b) /\ SubSeq(b, 1, Len(a)) = a

\* Round ids an event can carry: the initial 0, the ids the backend hands
\* out, and one it never handed out.
RoundIds == 0..(MaxRounds + 1)

Pending(kind) == {t \in timeouts : t.kind = kind}

\* A round is superseded only by startRound, which changes currentRoundId
\* (the backend never hands out an id twice); a dismissal is the only way
\* into idle.
SameRound == currentRoundId' = currentRoundId
Dismissal == chatState' = "idle"
ChunkDelivered == delivered' = delivered + 1

\* C1: in every reachable state, appendChunk with a round id other than
\* currentRoundId returns the state it was given: chatState, currentRoundId,
\* both buffers, both flags, the bubble and the three timers are unchanged.
C1_StaleChunkIsNoOp ==
    \A roundId \in RoundIds, chunk \in Chunks :
        roundId # currentRoundId => appendChunk(S, roundId, chunk) = S

\* C1 witness: a round waits with its first-token timeout as startRound left
\* it (no other timeout was ever set, so no chunk was ever accepted), and
\* chunks have been delivered: each of them was stale and changed nothing.
C1_Witness ==
    /\ delivered > 0
    /\ chatState = "waiting_first_token"
    /\ timerSeq = 1
    /\ firstTokenTimer = 1
    /\ timeouts = {[id |-> 1, kind |-> "firstToken", round |-> currentRoundId]}

\* C2: startRound, run while a round is waiting or streaming, leaves no
\* pending text and no pending timeout but its own fresh first-token
\* timeout; no pending timeout was ever set under another round than the
\* current one, and each pending timeout is held by its handle; a chunk or a
\* stream-error tagged with another round than the current one changes
\* nothing.
C2_SupersededRoundIsInert ==
    /\ \A roundId \in 1..MaxRounds :
          chatState \in {"waiting_first_token", "streaming"} =>
              LET t == startRound(S, roundId)
              IN  /\ t.pendingStreamText = <<>>
                  /\ t.flushTimer = NULL
                  /\ t.silenceTimer = NULL
                  /\ t.firstTokenTimer > timerSeq
                  /\ t.timeouts = {[id |-> t.firstTokenTimer, kind |-> "firstToken",
                                    round |-> roundId]}
    /\ \A t \in timeouts :
          /\ t.round = currentRoundId
          /\ \/ t.kind = "flush" /\ t.id = flushTimer
             \/ t.kind = "silence" /\ t.id = silenceTimer
             \/ t.kind = "firstToken" /\ t.id = firstTokenTimer
    /\ \A roundId \in RoundIds, chunk \in Chunks :
          roundId # currentRoundId =>
              /\ appendChunk(S, roundId, chunk) = S
              /\ \A payload \in StreamErrorPayloads({roundId}) :
                    onStreamError(S, payload) = S

\* C2 witness: round 2 has just superseded round 1, which had set three
\* timeouts (first-token, silence, flush: it held pending text); only round
\* 2's first-token timeout is pending, and a chunk has been delivered.
C2_Witness ==
    /\ currentRoundId = 2
    /\ chatState = "waiting_first_token"
    /\ ~sawRawChunk
    /\ pendingStreamText = <<>>
    /\ timerSeq = 4
    /\ timeouts = {[id |-> 4, kind |-> "firstToken", round |-> 2]}
    /\ delivered = 1

\* C3: while the round stays the same and is not dismissed, the rendered
\* text only grows (the old value is a prefix of the new one), and it does
\* not change at all once the state is round_done or error.
C3_RenderedFreezes ==
    [][(SameRound /\ ~Dismissal) =>
          /\ IsPrefix(renderedStreamText, renderedStreamText')
          /\ chatState \in {"round_done", "error"} =>
                renderedStreamText' = renderedStreamText]_vars

\* C4: once the state is error it stays error until a new round starts or
\* the response is dismissed.
C4_ErrorIsTerminal ==
    [][(chatState = "error" /\ SameRound /\ ~Dismissal) => chatState' = "error"]_vars

\* The step delivers the chunk that is the first one accepted in the round
\* (it sets sawRawChunk), while the state is waiting_first_token.
FirstFragmentAccepted ==
    /\ ChunkDelivered
    /\ chatState = "waiting_first_token"
    /\ ~sawRawChunk
    /\ sawRawChunk'

C6_DismissedRoundIsDestroyed ==
    [][(ChunkDelivered /\ chatState = "idle" /\ currentRoundId # 0) =>
          /\ chatState' = "idle"
          /\ renderedStreamText' = <<>>
          /\ pendingStreamText' = <<>>
          /\ bubbleHidden'
          /\ flushTimer' = NULL /\ silenceTimer' = NULL /\ firstTokenTimer' = NULL
          /\ timeouts' = {}]_vars

\* C7: when the round has accepted non-empty sanitized text, the silence
\* callback leaves the state round_done, nothing pending, and the rendered
\* text equal to all the sanitized text accepted in the round, in order.
C7_SilenceCompletesRound ==
    \A t \in Pending("silence") :
        roundText # <<>> =>
            LET u == silenceCallback(Fired(S, t))
            IN  /\ u.chatState = "round_done"
                /\ u.pendingStreamText = <<>>
                /\ u.renderedStreamText = roundText

C9_FirstTokenTimeout ==
    \A t \in Pending("firstToken") :
        (chatState = "waiting_first_token" /\ ~sawRawChunk) =>
            LET u == firstTokenCallback(Fired(S, t))
            IN  /\ u.chatState = "error"
                /\ u.bubbleText = SESSION_INTERRUPTED_HINT
                /\ u.bubbleText # STREAM_UNPARSABLE_HINT
                /\ ~u.bubbleHidden
                /\ u.firstTokenTimer = NULL

\* C9 witness: a round waits, no chunk was ever delivered, its first-token
\* timeout is pending and its callback, run now, ends the round in error.
C9_Witness ==
    /\ chatState = "waiting_first_token"
    /\ ~sawRawChunk
    /\ delivered = 0
    /\ \E t \in Pending("firstToken") :
          /\ t.id = firstTokenTimer
          /\ firstTokenCallback(Fired(S, t)).chatState = "error"

\* C10: the first-token timer and the silence timer are never both armed,
\* and once a chunk was accepted in the round (sawRawChunk, which only
\* startRound clears) the first-token timer is disarmed.
C10_FirstTokenTimerExclusive ==
    /\ ~(firstTokenTimer # NULL /\ silenceTimer # NULL)
    /\ ~(Pending("firstToken") # {} /\ Pending("silence") # {})
    /\ sawRawChunk => (firstTokenTimer = NULL /\ Pending("firstToken") = {})

\* C10 witness: a chunk without text was accepted while waiting: the silence
\* timeout is pending and the first-token timeout is not.
C10_Witness ==
    /\ chatState = "waiting_first_token"
    /\ sawRawChunk
    /\ roundText = <<>>
    /\ firstTokenTimer = NULL
    /\ Pending("firstToken") = {}
    /\ silenceTimer # NULL
    /\ Pending("silence") # {}

\* No stream timer is armed: no handle is held and no stream timeout is
\* pending.
NoTimerArmed(s) ==
    /\ s.flushTimer = NULL
    /\ s.silenceTimer = NULL
    /\ s.firstTokenTimer = NULL
    /\ s.timeouts = {}

\* C11: whenever the state is error or round_done, none of the flush,
\* silence and first-token timers is armed.
C11_TerminalDisarmsTimers ==
    chatState \in {"error", "round_done"} => NoTimerArmed(S)

\* The flush timer is armed: its handle is held and that timeout is pending.
FlushArmed(s) ==
    /\ s.flushTimer # NULL
    /\ \E t \in s.timeouts : t.kind = "flush" /\ t.id = s.flushTimer

\* C12 as stated: whenever text is pending, the flush timer is armed.
C12_PendingHasFlushTimer ==
    pendingStreamText # <<>> => FlushArmed(S)

\* C12 amended: text is pending without an armed flush timer only in the
\* state error (a stream-error or a session-interrupted event disarmed the
\* timer and kept the text); in every other state pending text has its flush
\* timer armed.  A chunk of the current round with text left after
\* sanitizing leaves nothing pending or the flush timer armed, and the flush
\* callback moves all the pending text to the end of the rendered text.
C12_PendingHasFlushTimerUnlessError ==
    /\ (pendingStreamText # <<>> /\ chatState # "error") => FlushArmed(S)
    /\ \A chunk \in Chunks :
          sanitize(chunk) # <<>> =>
              LET u == appendChunk(S, currentRoundId, chunk)
              IN  u.pendingStreamText = <<>> \/ FlushArmed(u)
    /\ \A t \in Pending("flush") :
          LET u == flushPendingStream(Fired(S, t))
          IN  /\ u.pendingStreamText = <<>>
              /\ u.renderedStreamText = renderedStreamText \o pendingStreamText
              /\ u.flushTimer = NULL

\* C12 witness: text is pending in a live round, its flush timer armed.
C12_Witness ==
    /\ chatState = "streaming"
    /\ pendingStreamText # <<>>
    /\ renderedStreamText # <<>>
    /\ FlushArmed(S)

\* C13: in every reachable state, whatever chatState is, startRound(n) sets
\* currentRoundId to n, empties the rendered and the pending text, clears
\* gotFirstToken and sawRawChunk, sets the state to waiting_first_token,
\* shows THINKING_HINT and leaves exactly one timeout pending, a fresh
\* first-token timeout held by firstTokenTimer, with the flush and silence
\* timers disarmed; an acknowledged submission and an acknowledged retry
\* with round id n do exactly what startRound(n) does.
C13_StartRoundResets ==
    \A n \in 1..(MaxRounds + 1) :
        LET t == startRound(S, n)
        IN  /\ t.currentRoundId = n
            /\ t.renderedStreamText = <<>>
            /\ t.pendingStreamText = <<>>
            /\ ~t.gotFirstToken
            /\ ~t.sawRawChunk
            /\ t.chatState = "waiting_first_token"
            /\ t.bubbleText = THINKING_HINT
            /\ ~t.bubbleHidden
            /\ t.flushTimer = NULL
            /\ t.silenceTimer = NULL
            /\ t.firstTokenTimer = timerSeq + 1
            /\ t.timeouts = {[id |-> t.firstTokenTimer, kind |-> "firstToken",
                              round |-> n]}
            /\ submitContinuation(S, [throws |-> FALSE, ok |-> TRUE,
                                      roundId |-> n]) = t
            /\ retryContinuation(S, [throws |-> FALSE, ok |-> TRUE,
                                     resent |-> TRUE, roundId |-> n]) = t

\* C13 witness: round 2 has been started over a round 1 that had accepted a
\* chunk (its first-token and silence timeouts were handles 1 and 2): the
\* state is what startRound(2) leaves, and the flag of round 1 is cleared.
C13_Witness ==
    /\ currentRoundId = 2
    /\ chatState = "waiting_first_token"
    /\ renderedStreamText = <<>>
    /\ pendingStreamText = <<>>
    /\ ~gotFirstToken
    /\ ~sawRawChunk
    /\ bubbleText = THINKING_HINT
    /\ ~bubbleHidden
    /\ ~inputVisible
    /\ delivered = 1
    /\ timerSeq = 3
    /\ flushTimer = NULL
    /\ silenceTimer = NULL
    /\ firstTokenTimer = 3
    /\ timeouts = {[id |-> 3, kind |-> "firstToken", round |-> 2]}

\* C14: currentRoundId never decreases.
C14_RoundIdNeverDecreases ==
    [][currentRoundId' >= currentRoundId]_vars

\* C15: in every reachable state, hideBubble (the bubble's click) and
\* closeChatUI (Escape) set the state to idle, empty the rendered and the
\* pending text, clear gotFirstToken, hide the bubble and leave no timer
\* armed, and leave currentRoundId (and sawRawChunk) as they were;
\* closeChatUI also hides the input.
C15_DismissalResets ==
    LET t == hideBubble(S)
        u == closeChatUI(S)
    IN  /\ t.chatState = "idle"
        /\ t.renderedStreamText = <<>>
        /\ t.pendingStreamText = <<>>
        /\ ~t.gotFirstToken
        /\ t.bubbleHidden
        /\ t.bubbleText = <<>>
        /\ NoTimerArmed(t)
        /\ t.currentRoundId = currentRoundId
        /\ t.sawRawChunk = sawRawChunk
        /\ t.inputVisible = inputVisible
        /\ u = [t EXCEPT !.inputVisible = FALSE]

\* C15 witness: round 1 was dismissed after it had accepted text and set its
\* three timeouts: the state is idle, nothing is pending, round 1 is
\* still the current round.
C15_Witness ==
    /\ chatState = "idle"
    /\ currentRoundId = 1
    /\ sawRawChunk
    /\ roundText # <<>>
    /\ renderedStreamText = <<>>
    /\ pendingStreamText = <<>>
    /\ ~gotFirstToken
    /\ bubbleHidden
    /\ timerSeq = 3
    /\ NoTimerArmed(S)

\* C16: in every reachable state, a stream-error event with the current
\* round id sets the state to error, shows SESSION_INTERRUPTED_HINT whatever
\* its kind and message, and leaves no timer armed; it leaves the round id,
\* the buffers and the flags alone.  With another round id it changes
\* nothing.
C16_StreamError ==
    \A payload \in StreamErrorPayloads(RoundIds) :
        LET u == onStreamError(S, payload)
        IN  IF payload.roundId = currentRoundId
            THEN /\ u.chatState = "error"
                 /\ u.bubbleText = SESSION_INTERRUPTED_HINT
                 /\ ~u.bubbleHidden
                 /\ NoTimerArmed(u)
                 /\ u.currentRoundId = currentRoundId
            ELSE u = S

\* C16 witness: a stream-error of the current round came while text was
\* pending with the flush and silence timers armed.
C16_Witness ==
    /\ chatState = "error"
    /\ bubbleText = SESSION_INTERRUPTED_HINT
    /\ ~bubbleHidden
    /\ currentRoundId = 1
    /\ pendingStreamText = <<"H">>
    /\ timerSeq = 3
    /\ NoTimerArmed(S)

\* C17: in every reachable state (idle and round_done included), a
\* session-interrupted event sets the state to error, shows its message, or
\* SESSION_INTERRUPTED_HINT when the message is empty, and leaves no timer
\* armed; currentRoundId is not read and not changed.
C17_SessionInterrupted ==
    \A message \in InterruptMessages :
        LET u == onSessionInterrupted(S, message)
        IN  /\ u.chatState = "error"
            /\ u.bubbleText = IF message = <<>> THEN SESSION_INTERRUPTED_HINT
                              ELSE message
            /\ ~u.bubbleHidden
            /\ NoTimerArmed(u)
            /\ u.currentRoundId = currentRoundId

\* C17 witness: a session-interrupted event with a message came before any
\* round was started.
C17_Witness ==
    /\ chatState = "error"
    /\ bubbleText = <<"BACKEND_MESSAGE">>
    /\ ~bubbleHidden
    /\ currentRoundId = 0
    /\ issued = 0
    /\ NoTimerArmed(S)

\* The timeouts of the given kind pending in the state record s.
PendingIn(s, kind) == {t \in s.timeouts : t.kind = kind}

\* C18: in every reachable state, a chunk of the current round with text
\* left after sanitizing that brings the pending text to STREAM_BATCH_CHARS
\* characters or more is flushed by appendChunk itself: the rendered text
\* gains the former pending text and the fragment, nothing is pending, the
\* bubble shows the rendered text and the flush timer is disarmed (also when
\* it was armed before).  Below the threshold the rendered text is left
\* alone and the text waits with the flush timer armed.
C18_BatchFlushesAtOnce ==
    \A chunk \in FlushChunks \cup Chunks :
        LET sanitizedChunk == sanitize(chunk)
            u == appendChunk(S, currentRoundId, chunk)
        IN  sanitizedChunk # <<>> =>
                IF Len(pendingStreamText \o sanitizedChunk) >= STREAM_BATCH_CHARS
                THEN /\ u.renderedStreamText =
                            renderedStreamText \o pendingStreamText \o sanitizedChunk
                     /\ u.pendingStreamText = <<>>
                     /\ u.bubbleText = u.renderedStreamText
                     /\ ~u.bubbleHidden
                     /\ u.flushTimer = NULL
                     /\ PendingIn(u, "flush") = {}
                ELSE /\ u.renderedStreamText = renderedStreamText
                     /\ u.pendingStreamText = pendingStreamText \o sanitizedChunk
                     /\ FlushArmed(u)

\* C18 witness: four fragments of 3, 3, 1 and 1 characters were accepted and
\* only one flush timeout was ever set (handle 3, at the first fragment; the
\* silence timeouts are 2, 4, 5 and 6): the fourth fragment filled the batch
\* and was flushed with the other three, and the flush timer is disarmed.
C18_Witness ==
    /\ chatState = "streaming"
    /\ delivered = 4
    /\ roundText = <<"d", "e", "f", "d", "e", "f", "a", "b">>
    /\ renderedStreamText = roundText
    /\ pendingStreamText = <<>>
    /\ timerSeq = 6
    /\ silenceTimer = 6
    /\ flushTimer = NULL
    /\ Pending("flush") = {}

\* C19: at most one flush timeout is pending, and it is the one flushTimer
\* holds; in every reachable state where the flush timer is armed, a chunk
\* of the current round that leaves the pending text below the batch
\* threshold leaves the same flush timeout pending, under the same handle.
C19_DebounceArmsOnce ==
    /\ Cardinality(Pending("flush")) <= 1
    /\ \A t \in Pending("flush") : t.id = flushTimer
    /\ \A chunk \in FlushChunks \cup Chunks :
          LET u == appendChunk(S, currentRoundId, chunk)
          IN  (/\ FlushArmed(S)
               /\ Len(pendingStreamText \o sanitize(chunk)) < STREAM_BATCH_CHARS) =>
                  /\ u.flushTimer = flushTimer
                  /\ PendingIn(u, "flush") = Pending("flush")

\* C19 witness: three fragments are pending and the flush timer still holds
\* the handle the first of them set (3), while the silence timer was
\* re-armed at each one (2, 4, 5).
C19_Witness ==
    /\ chatState = "waiting_first_token"
    /\ pendingStreamText = <<"a", "b", "c">>
    /\ flushTimer = 3
    /\ Pending("flush") = {[id |-> 3, kind |-> "flush", round |-> 1]}
    /\ silenceTimer = 5
    /\ timerSeq = 5

\* C20: while the state is waiting_first_token and the round has accepted
\* text (all of it arrived before any flush, and is shorter than a batch),
\* that text is pending in arrival order with one flush timeout pending;
\* the fire of that timeout leaves the rendered text (and the bubble) equal
\* to the concatenation of the fragments, nothing pending, and no flush
\* timeout pending any more.
C20_BurstFlushedOnce ==
    (chatState = "waiting_first_token" /\ roundText # <<>>) =>
        /\ Len(roundText) < STREAM_BATCH_CHARS
        /\ pendingStreamText = roundText
        /\ renderedStreamText = <<>>
        /\ FlushArmed(S)
        /\ Cardinality(Pending("flush")) = 1
        /\ \A t \in Pending("flush") :
              LET u == flushPendingStream(Fired(S, t))
              IN  /\ u.renderedStreamText = roundText
                  /\ u.pendingStreamText = <<>>
                  /\ u.bubbleText = roundText
                  /\ ~u.bubbleHidden
                  /\ u.chatState = "streaming"
                  /\ u.flushTimer = NULL
                  /\ PendingIn(u, "flush") = {}

\* C20 witness: "a", "b", "c" were accepted, one flush timeout was ever set
\* (handle 3 of 5) and it has fired once, after the third fragment: the
\* rendered text is "abc", nothing is pending, the round still streams.
C20_Witness ==
    /\ chatState = "streaming"
    /\ delivered = 3
    /\ roundText = <<"a", "b", "c">>
    /\ renderedStreamText = <<"a", "b", "c">>
    /\ bubbleText = <<"a", "b", "c">>
    /\ pendingStreamText = <<>>
    /\ timerSeq = 5
    /\ silenceTimer = 5
    /\ flushTimer = NULL
    /\ Pending("flush") = {}

\* The steps of the reference scenario, each recognised by what it changes.
\* The acknowledgment of round 1 is processed.
ScenarioAck == currentRoundId = 0 /\ currentRoundId' = 1

\* "H" is the first fragment accepted in the round.
ScenarioFirstH ==
    /\ ChunkDelivered
    /\ chatState = "waiting_first_token"
    /\ roundText = <<>>
    /\ roundText' = <<"H">>

\* The flush timeout fires (the silence timeout stays pending).
ScenarioDebounce ==
    /\ flushTimer # NULL
    /\ flushTimer' = NULL
    /\ delivered' = delivered
    /\ silenceTimer # NULL
    /\ silenceTimer' = silenceTimer

\* "i" is accepted after "H" has been rendered.
ScenarioThenI ==
    /\ ChunkDelivered
    /\ chatState = "streaming"
    /\ renderedStreamText = <<"H">>
    /\ roundText = <<"H">>
    /\ roundText' = <<"H", "i">>

\* The silence timeout fires.
ScenarioSilence ==
    /\ silenceTimer # NULL
    /\ silenceTimer' = NULL
    /\ delivered' = delivered
    /\ roundText = <<"H", "i">>
    /\ chatState = "streaming"

\* What the scenario's steps share in the claim as stated and as amended:
\* the acknowledgment leaves waiting_first_token; the debounce fire renders
\* "H"; "i" is pending after "H" and rendered by the next flush; the silence
\* fire leaves round_done with "Hi" rendered.
ScenarioOtherSteps ==
    /\ ScenarioAck =>
          /\ chatState' = "waiting_first_token"
          /\ renderedStreamText' = <<>>
          /\ pendingStreamText' = <<>>
    /\ (ScenarioDebounce /\ chatState = "waiting_first_token" /\ roundText = <<"H">>) =>
          /\ renderedStreamText' = <<"H">>
          /\ pendingStreamText' = <<>>
          /\ chatState' = "streaming"
    /\ ScenarioThenI =>
          /\ chatState' = "streaming"
          /\ renderedStreamText' = <<"H">>
          /\ pendingStreamText' = <<"i">>
    /\ (/\ ScenarioDebounce
        /\ chatState = "streaming"
        /\ roundText = <<"H", "i">>
        /\ renderedStreamText = <<"H">>) =>
          /\ renderedStreamText' = <<"H", "i">>
          /\ pendingStreamText' = <<>>
          /\ chatState' = "streaming"
    /\ ScenarioSilence =>
          /\ chatState' = "round_done"
          /\ renderedStreamText' = <<"H", "i">>
          /\ pendingStreamText' = <<>>

C22_FragmentRearmsSilence ==
    /\ Cardinality(Pending("silence")) <= 1
    /\ \A t \in Pending("silence") : t.id = silenceTimer
    /\ \A chunk \in Chunks \cup FlushChunks :
          LET u == appendChunk(S, currentRoundId, chunk)
          IN  /\ u.silenceTimer > timerSeq
              /\ PendingIn(u, "silence") =
                    {[id |-> u.silenceTimer, kind |-> "silence",
                      round |-> currentRoundId]}
              /\ PendingIn(u, "silence") \cap Pending("silence") = {}

\* C22 witness: two chunks that sanitize to nothing were accepted in round
\* 1; the silence timeout of the first (handle 2) was replaced by a fresh one
\* (handle 3) at the second.
C22_Witness ==
    /\ chatState = "waiting_first_token"
    /\ currentRoundId = 1
    /\ sawRawChunk
    /\ roundText = <<>>
    /\ delivered = 2
    /\ timerSeq = 3
    /\ silenceTimer = 3
    /\ timeouts = {[id |-> 3, kind |-> "silence", round |-> 1]}

\* Every RetryAck a reply can carry, and whether the request threw instead.
AnyRetryAcks ==
    [throws : BOOLEAN, ok : BOOLEAN, resent : BOOLEAN,
     roundId : {NULL} \cup (1..(MaxRounds + 1))]

\* C23: in every reachable state, retryLastFailedInput resumed with a reply
\* that has ok, resent and a round id does what startRound does with that id
\* (the state is waiting_first_token, the id is current); resumed with any
\* other reply, or with a throw, it shows RETRY_FAILED_HINT, sets the state
\* to error and changes nothing else: currentRoundId, the timers and the
\* failure dialog are as they were.
C23_RetryOutcome ==
    \A ack \in AnyRetryAcks :
        LET u == retryContinuation(S, ack)
        IN  IF ~ack.throws /\ ack.ok /\ ack.resent /\ ack.roundId # NULL
            THEN /\ u = startRound(S, ack.roundId)
                 /\ u.chatState = "waiting_first_token"
                 /\ u.currentRoundId = ack.roundId
            ELSE /\ u = [S EXCEPT !.bubbleText = RETRY_FAILED_HINT,
                                  !.bubbleHidden = FALSE,
                                  !.chatState = "error"]
                 /\ u.currentRoundId = currentRoundId
                 /\ u.firstFailModalVisible = firstFailModalVisible

\* C23 witness: a retry has failed while round 1 was current: the bubble
\* shows RETRY_FAILED_HINT, the state is error, the dialog is closed and no
\* request is in flight.
C23_Witness ==
    /\ chatState = "error"
    /\ bubbleText = RETRY_FAILED_HINT
    /\ ~bubbleHidden
    /\ ~firstFailModalVisible
    /\ currentRoundId = 1
    /\ inflight = {}

\* The state s after a failure was reported in the bubble.
ShowsInterrupted(s) ==
    [s EXCEPT !.bubbleText = SESSION_INTERRUPTED_HINT,
              !.bubbleHidden = FALSE,
              !.chatState = "error"]

\* C25: in every reachable state, submitInput resumed with a reply that has
\* ok = false shows SESSION_INTERRUPTED_HINT, sets the state to error and
\* changes nothing else (round id, buffers, flags and timers are as they
\* were); its catch block, at the deferred check, changes nothing at all
\* when the failure dialog is open and does the same as for ok = false when
\* it is not; and the step in which the request throws changes no variable
\* of the program.
C25_FailedSubmission ==
    /\ [](/\ \A roundId \in RoundIds :
               submitContinuation(S, [throws |-> FALSE, ok |-> FALSE,
                                      roundId |-> roundId]) = ShowsInterrupted(S)
          /\ submitCatchCheck(S) = IF firstFailModalVisible THEN S
                                   ELSE ShowsInterrupted(S))
    /\ [][submitChecks' = submitChecks + 1 => UNCHANGED progVars]_vars

\* C25 witness: a submission has thrown before any round was started, the
\* failure dialog is open and the deferred check is about to run: it will
\* change nothing.
C25_Witness ==
    /\ submitChecks > 0
    /\ firstFailModalVisible
    /\ chatState = "idle"
    /\ currentRoundId = 0
    /\ timerSeq = 0
    /\ submitCatchCheck(S) = S

\* A retry-last reply is processed.
RetryReplyProcessed ==
    \E c \in inflight : c.cmd = "qwen_retry_last" /\ inflight' = inflight \ {c}

\* C24: after every step, the retry-last requests issued so far, plus one if
\* the failure dialog is open (one more could be issued), are no more than
\* the first-send-failed events received so far; a request is issued only
\* by a step that finds the dialog open and closes it; and the step that
\* processes a retry-last reply issues no request and leaves the dialog as
\* it was.
C24_RetryBounded ==
    [][/\ retryRequests' + (IF firstFailModalVisible' THEN 1 ELSE 0)
              <= firstFailEvents'
       /\ retryRequests' # retryRequests =>
              /\ retryRequests' = retryRequests + 1
              /\ firstFailModalVisible
              /\ ~firstFailModalVisible'
       /\ RetryReplyProcessed =>
              /\ retryRequests' = retryRequests
              /\ firstFailModalVisible' = firstFailModalVisible
              /\ \A c \in inflight' : c \in inflight]_vars

\* C24 witness: two failures were reported and each was retried once; the
\* second retry has failed and no request is in flight.
C24_Witness ==
    /\ firstFailEvents = 2
    /\ retryRequests = 2
    /\ ~firstFailModalVisible
    /\ chatState = "error"
    /\ bubbleText = RETRY_FAILED_HINT
    /\ inflight = {}

\* C26: the sanitizer applied to its own output changes nothing.
C26_SanitizerIdempotent ==
    Len(sanOutput) >= 2 => sanOutput[2] = sanOutput[1]

\* The characters of SanAlphabet that are printable or a newline.
Printable == SanAlphabet \ {ESC, BEL, CR}

\* Length of an OSC sequence at the head of s as the claim delimits it:
\* ESC ] up to its first BEL or ESC \ terminator; 0 when there is none.
OscToFirstTerminator(s) ==
    IF Len(s) >= 3 /\ s[1] = ESC /\ s[2] = "]"
    THEN LET ends == {i \in 3..Len(s) : s[i] = BEL}
                     \cup {i + 1 : i \in {j \in 3..(Len(s) - 1) :
                                           s[j] = ESC /\ s[j + 1] = "\\"}}
         IN  IF ends # {} THEN CHOOSE i \in ends : \A j \in ends : i <= j
             ELSE 0
    ELSE 0

\* The positions of s inside a CSI sequence or inside an OSC sequence,
\* wherever in s the sequence starts.
InSequence(s) ==
    {i \in 1..Len(s) :
        \E b \in 1..i :
            LET rest == SubSeq(s, b, Len(s))
            IN  \/ i < b + CsiMatchLen(rest)
                \/ i < b + OscToFirstTerminator(rest)}

\* The characters of s at the positions of keep, from position i on.
RECURSIVE Pick(_, _, _)
Pick(s, keep, i) ==
    IF i > Len(s) THEN <<>>
    ELSE (IF i \in keep THEN <<s[i]>> ELSE <<>>) \o Pick(s, keep, i + 1)

\* The plain printable characters and newlines of s, in order.
PlainText(s) ==
    Pick(s, {i \in 1..Len(s) : s[i] \in Printable} \ InSequence(s), 1)

\* a can be obtained from b by deleting characters.
RECURSIVE IsSubseq(_, _)
IsSubseq(a, b) ==
    IF a = <<>> THEN TRUE
    ELSE IF b = <<>> THEN FALSE
    ELSE IF Head(a) = Head(b) THEN IsSubseq(Tail(a), Tail(b))
    ELSE IsSubseq(a, Tail(b))

\* C27: every printable character or newline of the fragment that is outside
\* every CSI sequence and every OSC sequence (ESC ] up to its first BEL or
\* ESC \ terminator) is in the sanitized fragment, in the same order.
C27_KeepsPlainText ==
    Len(sanOutput) >= 1 => IsSubseq(PlainText(sanInput), sanOutput[1])

\* C28: in every reachable state the rendered text followed by the pending
\* text is the sanitized text of the fragments accepted since the most
\* recent startRound or dismissal, in the order they were accepted.
C28_NoTextLost ==
    renderedStreamText \o pendingStreamText = acceptedText

\* Two fragments accepted, the first rendered and the second still pending.
C28_Witness ==
    /\ chatState = "streaming"
    /\ delivered = 2
    /\ Len(renderedStreamText) > 0
    /\ Len(pendingStreamText) > 0
    /\ flushTimer # NULL
    /\ acceptedText = renderedStreamText \o pendingStreamText

\* The step processes the acknowledgment c of an accepted request.
AckProcessed(c) ==
    /\ c.roundId # NULL
    /\ inflight' = inflight \ {c}
    /\ currentRoundId' = c.roundId

\* C30: while the acknowledgment of round n is still to be processed, n is
\* not the current round and appendChunk with round id n returns the state
\* it was given; the step that processes the acknowledgment starts round n
\* with no text rendered, pending or accepted; and the rendered text is
\* always the head of the text accepted since then, so a fragment of round n
\* delivered before the acknowledgment is never in round n's rendered text.
C30_EarlyFragmentDiscarded ==
    /\ [](\A c \in inflight :
            c.roundId # NULL =>
                /\ c.roundId # currentRoundId
                /\ \A chunk \in Chunks : appendChunk(S, c.roundId, chunk) = S)
    /\ [][\A c \in inflight :
            AckProcessed(c) =>
                /\ renderedStreamText' = <<>>
                /\ pendingStreamText' = <<>>
                /\ acceptedText' = <<>>]_vars
    /\ [](IsPrefix(renderedStreamText, acceptedText))

\* The only fragment of the behaviour was of round 1 and came before the
\* acknowledgment of round 1: round 1 is current and has seen no fragment.
C30_Witness ==
    /\ issued = 1
    /\ delivered = 1
    /\ currentRoundId = 1
    /\ inflight = {}
    /\ chatState = "waiting_first_token"
    /\ ~sawRawChunk
    /\ renderedStreamText = <<>>
    /\ pendingStreamText = <<>>
    /\ bubbleText = THINKING_HINT

\* A round is running: the reply is awaited or arriving.
RoundRunning == chatState \in {"waiting_first_token", "streaming"}

\* The coordinator is at rest.
RoundAtRest == chatState \in {"round_done", "error", "idle"}

\* C29: in every reachable state with chatState waiting_first_token or
\* streaming the first-token timer or the silence timer is armed, with its
\* timeout pending; and, fragments being finitely many and pending timeouts
\* firing in the end, a state with chatState waiting_first_token or
\* streaming is followed by one with chatState round_done, error or idle.
C29_RoundComesToRest ==
    /\ [](RoundRunning =>
            \/ /\ firstTokenTimer # NULL
               /\ \E t \in Pending("firstToken") : t.id = firstTokenTimer
            \/ /\ silenceTimer # NULL
               /\ \E t \in Pending("silence") : t.id = silenceTimer)
    /\ (RoundRunning ~> RoundAtRest)

\* Round 1 has streamed a fragment and come to rest with no timer left.
C29_Witness ==
    /\ chatState = "round_done"
    /\ currentRoundId = 1
    /\ delivered = 1
    /\ gotFirstToken
    /\ Len(renderedStreamText) > 0
    /\ pendingStreamText = <<>>
    /\ NoTimerArmed(S)
    /\ timeouts = {}

\* submitInput with an empty trimmed input changes the bubble and chatState
\* only: the round id, both texts, both flags, the three timer handles, the
\* pending timeouts and the input form are as they were.
EmptySubmitFrame ==
    submitEmpty(S) = [S EXCEPT !.bubbleText = EMPTY_INPUT_HINT,
                               !.bubbleHidden = FALSE,
                               !.chatState = "error"]

\* The state after an empty submission in s and then the round's pending
\* timeouts firing in the order of their delays: the flush timeout, if one
\* is pending, then the silence timeout t.
AfterEmptySubmitAndSilence(s, t) ==
    LET s1 == submitEmpty(s)
        s2 == IF PendingIn(s1, "flush") # {}
              THEN flushPendingStream(
                       Fired(s1, CHOOSE f \in PendingIn(s1, "flush") : TRUE))
              ELSE s1
    IN  silenceCallback(Fired(s2, t))

\* C31: an empty submission changes only the bubble and chatState, and when
\* the form is open while a round is waiting or streaming with its silence
\* timer armed, that timer then leaves the state at error.
C31_EmptySubmitKeepsRound ==
    /\ EmptySubmitFrame
    /\ (inputVisible /\ RoundRunning) =>
           \A t \in Pending("silence") :
               AfterEmptySubmitAndSilence(S, t).chatState = "error"

\* The state record t has chatState error and no stream timer, and keeps
\* the round id, both texts and both flags of the current state.
ErrorKeepsBuffers(t) ==
    /\ t.chatState = "error"
    /\ NoTimerArmed(t)
    /\ t.pendingStreamText = pendingStreamText
    /\ t.renderedStreamText = renderedStreamText
    /\ t.gotFirstToken = gotFirstToken
    /\ t.sawRawChunk = sawRawChunk
    /\ t.currentRoundId = currentRoundId

\* C32: in every reachable state, the stream-error listener (for the
\* current round) and the session-interrupted listener leave the state error
\* with the three timers disarmed, and leave pendingStreamText,
\* renderedStreamText, gotFirstToken, sawRawChunk and currentRoundId as they
\* were.
C32_ErrorKeepsBuffers ==
    /\ \A payload \in StreamErrorPayloads({currentRoundId}) :
           ErrorKeepsBuffers(onStreamError(S, payload))
    /\ \A message \in InterruptMessages :
           ErrorKeepsBuffers(onSessionInterrupted(S, message))

\* A fragment was buffered, then the round was interrupted before the flush:
\* the text is still pending, with no timer to flush it.
C32_Witness ==
    /\ chatState = "error"
    /\ currentRoundId = 1
    /\ delivered = 1
    /\ bubbleText = SESSION_INTERRUPTED_HINT
    /\ pendingStreamText = <<"H">>
    /\ renderedStreamText = <<>>
    /\ ~gotFirstToken
    /\ sawRawChunk
    /\ NoTimerArmed(S)

\* The raw stream is one CSI sequence, or one OSC sequence up to its first
\* terminator.
StreamIsOneSequence ==
    \/ CsiMatchLen(sanInput) = Len(sanInput)
    \/ OscToFirstTerminator(sanInput) = Len(sanInput)

\* C33: the text of a round that accepted the stream in two fragments a and
\* b is sanitize(a) followed by sanitize(b); when the stream is one CSI or
\* OSC sequence, which the sanitizer removes from the unsplit stream, that
\* text is not empty: the split sequence is not removed.
C33_SplitSequenceSurvives ==
    /\ delivered = 2 =>
           renderedStreamText \o pendingStreamText
               = sanitize(FirstPart) \o sanitize(SecondPart)
    /\ (delivered = 2 /\ StreamIsOneSequence) =>
           /\ sanitize(sanInput) = <<>>
           /\ renderedStreamText \o pendingStreamText # <<>>

\* ESC [ and m came in two fragments: the bubble shows ESC [ m, which the
\* sanitizer removes from the unsplit stream.
C33_Witness ==
    /\ sanInput = <<ESC, "[", "m">>
    /\ splitAt = 2
    /\ delivered = 2
    /\ renderedStreamText = <<ESC, "[", "m">>
    /\ bubbleText = renderedStreamText
    /\ pendingStreamText = <<>>
    /\ sanitize(sanInput) = <<>>
    /\ sanitize(FirstPart) \o sanitize(SecondPart) # sanitize(sanInput)

\* The randomWalkStep calls in progress.
WalkersInProgress == {i \in 1..MaxWalkers : walkers[i].pc # "rest"}

\* C34: at most one randomWalkStep call is in progress in every reachable
\* state, and walkBusy holds exactly while one is; a call gets past its
\* first line only when walkBusy, inputVisible and isDragging are all false;
\* and the step in which a call ends, after a failed window operation or
\* not, leaves walkBusy false.
C34_OneWalkStepAtATime ==
    /\ [](Cardinality(WalkersInProgress) <= 1)
    /\ [](walkBusy <=> WalkersInProgress # {})
    /\ [][\A i \in 1..MaxWalkers :
            /\ (walkers[i].pc = "rest" /\ walkers'[i].pc # "rest") =>
                   (~walkBusy /\ ~inputVisible /\ ~isDragging)
            /\ (walkers[i].pc # "rest" /\ walkers'[i].pc = "rest") =>
                   ~walkBusy']_vars

\* A step is animating its third direction when the form has been opened
\* and a drag has started: the other call can only return at once.
C34_Witness ==
    /\ walkers[1] = [pc |-> "frame", index |-> 2]
    /\ walkers[2] = WalkerAtRest
    /\ walkBusy
    /\ inputVisible
    /\ isDragging

\* C35: in every reachable state the pending text is shorter than
\* STREAM_BATCH_CHARS characters.
C35_PendingBelowBatch ==
    Len(pendingStreamText) < STREAM_BATCH_CHARS

\* One character short of a batch is pending, waiting for the flush timer.
C35_Witness ==
    /\ Len(pendingStreamText) = STREAM_BATCH_CHARS - 1
    /\ FlushArmed(S)
    /\ delivered >= 3

\* C36: in every reachable state, chatState = streaming implies that
\* gotFirstToken and sawRawChunk are true and renderedStreamText is not
\* empty; and gotFirstToken implies sawRawChunk.
C36_StreamingHasText ==
    /\ chatState = "streaming" =>
           /\ gotFirstToken
           /\ sawRawChunk
           /\ renderedStreamText # <<>>
    /\ gotFirstToken => sawRawChunk

\* The response was dismissed and a late fragment of the same round was
\* rendered: streaming again, with both flags set and text in the bubble.
C36_Witness ==
    /\ chatState = "streaming"
    /\ currentRoundId = 1
    /\ delivered = 2
    /\ gotFirstToken
    /\ sawRawChunk
    /\ renderedStreamText = <<"H">>
    /\ acceptedText = <<"H">>
    /\ roundText = <<"H", "H">>
    /\ bubbleText = renderedStreamText

=============================================================================
